---- MODULE Spec2Model ----
(***************************************************************************)
(* AsanaToGithub: the task cache (taskcache.py) and the migration run of   *)
(* the two orchestrator variants (_asana_to_github.py, asana_to_github.py).*)
(***************************************************************************)
EXTENDS Integers, Sequences, FiniteSets, TLC

(* ------------------------------ bounds -------------------------------- *)

\* task ids are 1..MaxId, each in numeric and in string form
MaxId == 2
\* datetime.now() readings taken by TaskCache.set: 1..MaxTime
MaxTime == 2
\* task names are the strings over Chars of at most this length
MaxNameLen == 1

(* ------------------------------ values -------------------------------- *)

Chars == {"a", ":"}

Names == UNION {[1..n -> Chars] : n \in 0..MaxNameLen}

\* the names given to TaskCache.set in the cache specification
CacheNames == {<<"a">>, <<"a", ":">>}

\* task['id'] as the Asana payload or a caller gives it: a number or a string
TaskIds == [ty : {"int", "str"}, n : 1..MaxId]

IntId(n) == [ty |-> "int", n |-> n]

StrKeys == {k \in TaskIds : k.ty = "str"}

\* str(task['id'])
Str(id) == [ty |-> "str", n |-> id.n]

\* json.dump writes a numeric dict key as its decimal string
JsonKey(k) == [ty |-> "str", n |-> k.n]

\* datetime.datetime.now().isoformat(): the rendering of a clock reading
IsoFormat(t) == [iso |-> t]

CacheRecord(name, t, completed) ==
    [name |-> name, copied_at |-> IsoFormat(t), completed_state |-> completed]

\* a record written by an earlier invocation (clock reading 0)
OldRecord == CacheRecord(<<"a">>, 0, FALSE)

EmptyMap == [k \in {} |-> OldRecord]

(* ------------------------------- state -------------------------------- *)

VARIABLES
    use_cache,   \* TaskCache.use_cache
    file,        \* the file at TaskCache.cache_path: [st, map]
    now,         \* number of clock readings taken so far
    last,        \* the last TaskCache call: what it was given and what it gave
    variant,     \* which script runs: "_asana_to_github" or "asana_to_github"
    options,     \* the parsed command line flags
    project,     \* the ids the project's task listing returns, in order
    pc,          \* where the run is: "idle" (no run), a step, "done", "aborted"
    run,         \* number of the invocation
    all_tasks,   \* the listing as fetched by this run
    idx,         \* position of the for loop in all_tasks
    task,        \* the task detail of the current loop iteration
    lq,          \* label names copy_task_to_github resolves, in order
    li,          \* position in lq
    log,         \* the remote calls made so far for the current task
    outcome,     \* per task id: how this run left it
    copiedBefore,\* ids whose copy returned normally in an earlier run
    issues,      \* target tracker: number of issues created per task id
    labels,      \* target tracker: names of the labels that exist
    tagExists,   \* source tracker: the 'copied to github' tag exists
    faults,      \* remote errors injected so far
    badKeys,     \* unrecognized answers typed at the current prompt
    identical,   \* whether an answer read from the input is the same object
                 \* as an equal string literal (fixed by the interpreter and
                 \* the kind of input for the whole invocation)
    writers,     \* concurrent invocations inside TaskCache.set: where each
                 \* is, the dict it loaded and changed, the task it was given
    disk         \* the number of characters in the cache file since it was
                 \* last truncated, and the invocation that wrote last

cvars == <<use_cache, file, now, last>>

ovars == <<variant, options, project, pc, run, all_tasks, idx, task, lq, li, log,
           outcome, copiedBefore, issues, labels, tagExists, faults, badKeys,
           identical, writers, disk>>

vars == <<cvars, ovars>>

\* the backing file: absent, not readable, not JSON, a JSON array, or a
\* JSON object (map: string key -> record)
FileMissing == [st |-> "missing", map |-> EmptyMap]
FileUnreadable == [st |-> "unreadable", map |-> EmptyMap]
FileCorrupt == [st |-> "corrupt", map |-> EmptyMap]
FileArray == [st |-> "array", map |-> EmptyMap]
FileObject(m) == [st |-> "ok", map |-> m]
\* a JSON object that open() cannot read (IOError), though it can be written
FileLocked(m) == [st |-> "unreadable", map |-> m]

InitFiles ==
    {FileMissing, FileUnreadable, FileCorrupt, FileArray}
        \cup {FileObject([k \in S |-> OldRecord]) : S \in SUBSET StrKeys}
        \cup {FileLocked([k \in StrKeys |-> OldRecord])}

(* ----------------------------- TaskCache ------------------------------ *)

\* open(self.cache_path) raises IOError; json.load raises ValueError
ReadFails(f) == f.st \in {"missing", "unreadable", "corrupt"}

\* load with `except IOError` only: a file that is not JSON raises ValueError
LoadNoValueError(f, use) ==
    IF ~use THEN [raised |-> FALSE, kind |-> "dict", d |-> EmptyMap]
    ELSE IF f.st = "corrupt" THEN [raised |-> TRUE, kind |-> "none", d |-> EmptyMap]
    ELSE IF ReadFails(f) THEN [raised |-> FALSE, kind |-> "dict", d |-> EmptyMap]
    ELSE IF f.st = "array" THEN [raised |-> FALSE, kind |-> "list", d |-> EmptyMap]
    ELSE [raised |-> FALSE, kind |-> "dict", d |-> f.map]

\* TaskCache.load: [raised, kind, d]; the except clause turns both read
\* failures into the empty dict, so load itself never raises
Load(f, use) ==
    IF ~use THEN [raised |-> FALSE, kind |-> "dict", d |-> EmptyMap]
    ELSE IF ReadFails(f) THEN [raised |-> FALSE, kind |-> "dict", d |-> EmptyMap]
    ELSE IF f.st = "array" THEN [raised |-> FALSE, kind |-> "list", d |-> EmptyMap]
    ELSE [raised |-> FALSE, kind |-> "dict", d |-> f.map]

\* TaskCache.includes: str(task['id']) in cache
Includes(f, use, id) == Str(id) \in DOMAIN Load(f, use).d

\* cache[task['id']] = {...}: the key is the id as given, not its string
SetKey(id) == id

Assign(d, id, rec) ==
    [k \in DOMAIN d \cup {SetKey(id)} |-> IF k = SetKey(id) THEN rec ELSE d[k]]

\* json.dump(cache): every key is written as a string; two keys with the same
\* string form are both written, in the dict's iteration order, and a reader
\* keeps the one written last
Dump(cache) ==
    LET keys == {JsonKey(k) : k \in DOMAIN cache}
        vals == {cache[k] : k \in DOMAIN cache}
    IN  {m \in [keys -> vals] :
            \A s \in keys : \E k \in DOMAIN cache : JsonKey(k) = s /\ m[s] = cache[k]}

\* save without the use_cache test
SaveNeverSkips(use) == FALSE

\* if not self.use_cache: return
SaveSkips(use) == ~use

\* save inside `try: ... except IOError: pass`
SaveSwallows(f, use, cache, io) ==
    IF SaveSkips(use) THEN {[file |-> f, raised |-> FALSE]}
    ELSE IF io = "open_fail" THEN {[file |-> f, raised |-> FALSE]}
    ELSE IF io = "write_fail" THEN {[file |-> FileCorrupt, raised |-> FALSE]}
    ELSE {[file |-> FileObject(m), raised |-> FALSE] : m \in Dump(cache)}

\* TaskCache.save: what the file can be afterwards, and whether save raised.
\* io is the file system's answer: "ok", "open_fail" (open(path, 'w') raises),
\* "write_fail" (the file was truncated and the write broke off)
Save(f, use, cache, io) ==
    IF SaveSkips(use) THEN {[file |-> f, raised |-> FALSE]}
    ELSE IF io = "open_fail" THEN {[file |-> f, raised |-> TRUE]}
    ELSE IF io = "write_fail" THEN {[file |-> FileCorrupt, raised |-> TRUE]}
    ELSE {[file |-> FileObject(m), raised |-> FALSE] : m \in Dump(cache)}

NoId == [ty |-> "none", n |-> 0]

NoLoad == [raised |-> FALSE, kind |-> "none", d |-> EmptyMap]

\* what the call was given (op, id, rec), what it gave (ret for includes,
\* loaded for load, raised) and the file it started from (pre)
\* set also records io, the file system's answer to save's open and write
\* ("none" when save was not reached or returned before open)
LastRec(op, id, rec, ret, loaded, raised, after, io) ==
    [op |-> op, id |-> id, rec |-> rec, ret |-> ret, loaded |-> loaded,
     raised |-> raised, pre |-> file, after_set |-> after, io |-> io]

\* the id of the set that has just returned normally, if that is the last call
JustSet == IF last.op = "set" /\ ~last.raised THEN last.id ELSE NoId

CacheLoad ==
    /\ pc = "idle"
    /\ last' = LastRec("load", NoId, OldRecord, FALSE, Load(file, use_cache),
                       Load(file, use_cache).raised, NoId, "none")
    /\ UNCHANGED <<use_cache, file, now>>
    /\ UNCHANGED ovars

CacheIncludes(id) ==
    /\ pc = "idle"
    /\ last' = LastRec("includes", id, OldRecord,
                       ~Load(file, use_cache).raised /\ Includes(file, use_cache, id),
                       NoLoad, Load(file, use_cache).raised, JustSet, "none")
    /\ UNCHANGED <<use_cache, file, now>>
    /\ UNCHANGED ovars

CacheSet(id, name, completed, io) ==
    /\ pc = "idle"
    /\ now < MaxTime
    /\ now' = now + 1
    /\ LET ld == Load(file, use_cache)
           rec == CacheRecord(name, now + 1, completed)
       IN  IF ld.raised \/ ld.kind = "list"
           THEN \* list[key] = value raises TypeError / IndexError
                /\ file' = file
                /\ last' = LastRec("set", id, rec, FALSE, NoLoad, TRUE, NoId, "none")
           ELSE \E r \in Save(file, use_cache, Assign(ld.d, id, rec), io) :
                /\ file' = r.file
                /\ last' = LastRec("set", id, rec, FALSE, NoLoad, r.raised, NoId,
                                  IF use_cache THEN io ELSE "none")
    /\ UNCHANGED use_cache
    /\ UNCHANGED ovars

NoLast ==
    [op |-> "none", id |-> NoId, rec |-> OldRecord, ret |-> FALSE,
     loaded |-> NoLoad, raised |-> FALSE, pre |-> FileMissing, after_set |-> NoId,
     io |-> "none"]

CacheNext ==
    \/ CacheLoad
    \/ \E id \in TaskIds : CacheIncludes(id)
    \/ \E id \in TaskIds, name \in CacheNames, completed \in BOOLEAN,
          io \in {"ok", "open_fail", "write_fail"} :
            CacheSet(id, name, completed, io)

(* ---------------------------- orchestrator ---------------------------- *)

\* invocations of the tool in one behaviour
MaxRuns == 2
\* remote calls that answer with an error in one behaviour
MaxFaults == 1
\* unrecognized keys typed at one prompt
MaxBadKeys == 1

Variants == {"_asana_to_github", "asana_to_github"}

Options ==
    [copy_completed : BOOLEAN, interactive : BOOLEAN, dont_apply_label : BOOLEAN,
     dont_apply_project_label : BOOLEAN, dont_copy_stories : BOOLEAN,
     dont_apply_tag : BOOLEAN, dont_update_story : BOOLEAN]

\* task['projects'] of a fetched task: the names of its projects
ProjectLists == {<<"P">>}

\* what get_task returns, as far as the run reads it
Details == [name : Names, completed : BOOLEAN, projects : ProjectLists]

NoTask == [name |-> <<>>, completed |-> FALSE, projects |-> <<>>]

\* what list_stories returns: the types of the task's stories
StoryLists == {<<>>, <<"comment">>, <<"attached">>, <<"added">>}


\* str.endswith(c)
EndsWith(name, c) == Len(name) > 0 /\ name[Len(name)] = c

\* the name test of the loop's condition: only _asana_to_github.py has one
NameOk(v, t) == IF v = "_asana_to_github" THEN ~EndsWith(t.name, ":") ELSE TRUE

\* a loop condition without the completion test
CompletionIgnored(opts, t) == TRUE

\* the completion test of the loop's condition
CompletionOk(opts, t) == opts.copy_completed \/ ~t.completed

\* the condition of the loop body
Considered(v, opts, t) == NameOk(v, t) /\ CompletionOk(opts, t)

\* labels = [] ... the names looked up, in the order of the code
LabelQueue(opts, t) ==
    (IF ~opts.dont_apply_label THEN <<"copied-from-asana">> ELSE <<>>)
        \o (IF ~opts.dont_apply_project_label THEN t.projects ELSE <<>>)

\* copy_stories_to_github: len(comment) > 0 or len(attachment) > 0
NeedsComment(stories) ==
    \E i \in 1..Len(stories) : stories[i] \in {"comment", "attached"}

\* the next remote call of copy_task_to_github, "return" when none is left
AfterTagPc(opts) == IF ~opts.dont_update_story THEN "add_story" ELSE "return"

AfterStoriesPc(opts) == IF ~opts.dont_apply_tag THEN "get_tags" ELSE AfterTagPc(opts)

\* a copy that lists the stories whatever dont_copy_stories says
AfterIssueAlways(opts) == "list_stories"

AfterIssuePc(opts) ==
    IF ~opts.dont_copy_stories THEN "list_stories" ELSE AfterStoriesPc(opts)

AfterLabelPc(q, i) == IF i < Len(q) THEN "get_label" ELSE "create_issue"

CopyPc(q) == IF Len(q) > 0 THEN "get_label" ELSE "create_issue"

\* a loop over reversed(all_tasks)
CurIdReversed == all_tasks[Len(all_tasks) + 1 - idx].n

\* a_task['id'] of the current iteration, as a number
CurId == all_tasks[idx].n

\* one remote call or prompt: the task it was made for (0: none), the call,
\* its argument and its answer
Entry(call, arg, res) ==
    [t |-> IF idx \in 1..Len(all_tasks) THEN CurId ELSE 0,
     call |-> call, arg |-> arg, res |-> res]

\* the for loop takes the next summary, or the run ends (exit(0))
LoopPc == IF idx < Len(all_tasks) THEN "get_task" ELSE "done"

\* a loop body that records every task it has looked at
LoopCacheVisited(res) ==
    IF res \in {"incomplete", "declined"}
    THEN /\ file' = FileObject(Assign(Load(file, use_cache).d, Str(all_tasks[idx]),
                                      CacheRecord(<<"a">>, now + 1, FALSE)))
         /\ UNCHANGED <<use_cache, now, last>>
    ELSE UNCHANGED cvars

\* what the loop body does to the cache when it ends with res ("copied",
\* "declined", "incomplete", "filtered"): it makes no TaskCache call
LoopCache(res) == UNCHANGED cvars

\* the loop body ends for the current task
Finish(res) ==
    /\ outcome' = [outcome EXCEPT ![CurId] = res]
    /\ idx' = idx + 1
    /\ pc' = LoopPc
    /\ LoopCache(res)

\* the run stays in the current task, at p
Stay(p) ==
    /\ pc' = p
    /\ UNCHANGED <<outcome, idx, cvars>>

\* copy_task_to_github goes on to its next call, or returns
Continue(p) == IF p = "return" THEN Finish("copied") ELSE Stay(p)

\* an exception leaves migrate_asana_to_github and main
Abort ==
    /\ pc' = "aborted"
    /\ outcome' = [outcome EXCEPT ![CurId] = "failed"]
    /\ UNCHANGED <<idx, cvars>>

\* a remote call answers normally
Ok(call, arg, res) ==
    /\ log' = Append(log, Entry(call, arg, res))
    /\ UNCHANGED faults

\* a remote call raises
Raises(call, arg) ==
    /\ faults < MaxFaults
    /\ faults' = faults + 1
    /\ log' = Append(log, Entry(call, arg, "error"))

conf == <<variant, options, project, run, copiedBefore, identical, writers, disk>>

\* the report of an empty project formats options.workspace and
\* options.project, which only asana_to_github.py's parser defines: in
\* _asana_to_github.py the print raises AttributeError
EmptyReportPc(v) == IF v = "_asana_to_github" THEN "aborted" ELSE "done"

GetTasks ==
    /\ pc = "get_tasks"
    /\ \/ /\ Ok("get_project_tasks", "", "ok")
          /\ all_tasks' = project
          /\ IF project = <<>>
             THEN pc' = EmptyReportPc(variant) /\ UNCHANGED idx
             ELSE pc' = "get_task" /\ idx' = 1
       \/ /\ Raises("get_project_tasks", "")
          /\ pc' = "aborted"
          /\ UNCHANGED <<all_tasks, idx>>
    /\ UNCHANGED <<task, lq, li, outcome, issues, labels, tagExists, badKeys>>
    /\ UNCHANGED <<conf, cvars>>

\* copy_task_to_github starts: the first label lookup, or the issue
BeginCopy(t) ==
    /\ lq' = LabelQueue(options, t)
    /\ li' = 1
    /\ Stay(CopyPc(LabelQueue(options, t)))

GetTask ==
    /\ pc = "get_task"
    /\ \/ \E d \in Details :
            /\ log' = <<Entry("get_task", "", "ok")>>
            /\ UNCHANGED faults
            /\ task' = d
            /\ IF ~Considered(variant, options, d)
               THEN /\ Finish(IF NameOk(variant, d) THEN "incomplete" ELSE "filtered")
                    /\ lq' = <<>> /\ li' = 0
               ELSE IF options.interactive
               THEN /\ Stay("ask")
                    /\ lq' = <<>> /\ li' = 0
               ELSE BeginCopy(d)
       \/ /\ faults < MaxFaults
          /\ faults' = faults + 1
          /\ log' = <<Entry("get_task", "", "error")>>
          /\ Abort
          /\ task' = NoTask /\ lq' = <<>> /\ li' = 0
    /\ badKeys' = 0
    /\ UNCHANGED <<all_tasks, issues, labels, tagExists>>
    /\ UNCHANGED conf

\* a prompt that returns True for both answers
AcceptsBoth(key) == key \in {"y", "n"}

\* the prompt returns user_input == 'y'
Accepts(key) == key = "y"

\* the other answer that ends the prompt loop
Declines(key) == key = "n"

\* what the user can answer: y, n, another key, Ctrl-C, Ctrl-D
Keys == {"y", "n", "x", "^C", "^D"}

\* getch raises KeyboardInterrupt for Ctrl-C and EOFError for Ctrl-D; so does
\* raw_input for an interrupt and for the end of the input
InterruptKeys == {"^C", "^D"}

\* asana_to_github.py tests the answer with `is not 'y'`: whether a string
\* read from the input is the same object as an equal literal depends on the
\* interpreter and on how the line was read; _asana_to_github.py uses !=,
\* for which it does not matter
Identities(v) == IF v = "asana_to_github" THEN BOOLEAN ELSE {TRUE}

\* the loop test: same tells whether equal strings are identical
LoopExits(v, key, same) ==
    (Accepts(key) \/ Declines(key)) /\ (v = "_asana_to_github" \/ same)

\* ask_user_permission: one answer read by the prompt loop; the log entry
\* holds the answer and what the prompt did with it ("True", "False",
\* "again", "raised")
AskUser(key) ==
    /\ pc = "ask"
    /\ \/ /\ key \in InterruptKeys
          /\ log' = Append(log, Entry("ask_user", key, "raised"))
          /\ Abort
          /\ UNCHANGED <<lq, li, badKeys>>
       \/ /\ key \notin InterruptKeys
          /\ LoopExits(variant, key, identical)
          /\ Accepts(key)
          /\ log' = Append(log, Entry("ask_user", key, "True"))
          /\ BeginCopy(task)
          /\ UNCHANGED badKeys
       \/ /\ key \notin InterruptKeys
          /\ LoopExits(variant, key, identical)
          /\ ~Accepts(key)
          /\ log' = Append(log, Entry("ask_user", key, "False"))
          /\ Finish("declined")
          /\ UNCHANGED <<lq, li, badKeys>>
       \/ /\ key \notin InterruptKeys
          /\ ~LoopExits(variant, key, identical)
          /\ badKeys < MaxBadKeys
          /\ badKeys' = badKeys + 1
          /\ log' = Append(log, Entry("ask_user", key, "again"))
          /\ Stay("ask")
          /\ UNCHANGED <<lq, li>>
    /\ UNCHANGED <<all_tasks, task, issues, labels, tagExists, faults>>
    /\ UNCHANGED conf

\* get_label: git_repo.get_label raises for a label that does not exist, and
\* `except Exception` turns every exception into None, so that create_label
\* is the next call after any failed lookup
GetLabel ==
    /\ pc = "get_label"
    /\ \/ /\ lq[li] \in labels
          /\ Ok("get_label", lq[li], "found")
          /\ li' = li + 1
          /\ Stay(AfterLabelPc(lq, li))
       \/ /\ lq[li] \notin labels
          /\ Ok("get_label", lq[li], "notfound")
          /\ Stay("create_label")
          /\ UNCHANGED li
       \/ /\ Raises("get_label", lq[li])
          /\ Stay("create_label")
          /\ UNCHANGED li
    /\ UNCHANGED <<all_tasks, task, lq, issues, labels, tagExists, badKeys>>
    /\ UNCHANGED conf

\* git_repo.create_label: the target tracker refuses a name that exists
CreateLabel ==
    /\ pc = "create_label"
    /\ \/ /\ lq[li] \notin labels
          /\ Ok("create_label", lq[li], "ok")
          /\ labels' = labels \cup {lq[li]}
          /\ li' = li + 1
          /\ Stay(AfterLabelPc(lq, li))
       \/ /\ lq[li] \in labels
          /\ log' = Append(log, Entry("create_label", lq[li], "error"))
          /\ Abort
          /\ UNCHANGED <<labels, li, faults>>
       \/ /\ lq[li] \notin labels
          /\ Raises("create_label", lq[li])
          /\ Abort
          /\ UNCHANGED <<labels, li>>
    /\ UNCHANGED <<all_tasks, task, lq, issues, tagExists, badKeys>>
    /\ UNCHANGED conf

CreateIssue ==
    /\ pc = "create_issue"
    /\ \/ /\ Ok("create_issue", "", "ok")
          /\ issues' = [issues EXCEPT ![CurId] = @ + 1]
          /\ Continue(AfterIssuePc(options))
       \/ /\ Raises("create_issue", "")
          /\ Abort
          /\ UNCHANGED issues
    /\ UNCHANGED <<all_tasks, task, lq, li, labels, tagExists, badKeys>>
    /\ UNCHANGED conf

ListStories ==
    /\ pc = "list_stories"
    /\ \/ \E stories \in StoryLists :
            /\ Ok("list_stories", "", "ok")
            /\ IF NeedsComment(stories)
               THEN Stay("create_comment")
               ELSE Continue(AfterStoriesPc(options))
       \/ /\ Raises("list_stories", "")
          /\ Abort
    /\ UNCHANGED <<all_tasks, task, lq, li, issues, labels, tagExists, badKeys>>
    /\ UNCHANGED conf

CreateComment ==
    /\ pc = "create_comment"
    /\ \/ /\ Ok("create_comment", "", "ok")
          /\ Continue(AfterStoriesPc(options))
       \/ /\ Raises("create_comment", "")
          /\ Abort
    /\ UNCHANGED <<all_tasks, task, lq, li, issues, labels, tagExists, badKeys>>
    /\ UNCHANGED conf

\* apply_tag_at_asana: get_tags and the search for the tag's name
GetTags ==
    /\ pc = "get_tags"
    /\ \/ /\ Ok("get_tags", "", "ok")
          /\ Stay(IF tagExists THEN "add_tag_task" ELSE "create_tag")
       \/ /\ Raises("get_tags", "")
          /\ Abort
    /\ UNCHANGED <<all_tasks, task, lq, li, issues, labels, tagExists, badKeys>>
    /\ UNCHANGED conf

CreateTag ==
    /\ pc = "create_tag"
    /\ \/ /\ Ok("create_tag", "", "ok")
          /\ tagExists' = TRUE
          /\ Stay("add_tag_task")
       \/ /\ Raises("create_tag", "")
          /\ Abort
          /\ UNCHANGED tagExists
    /\ UNCHANGED <<all_tasks, task, lq, li, issues, labels, badKeys>>
    /\ UNCHANGED conf

AddTagTask ==
    /\ pc = "add_tag_task"
    /\ \/ /\ Ok("add_tag_task", "", "ok")
          /\ Continue(AfterTagPc(options))
       \/ /\ Raises("add_tag_task", "")
          /\ Abort
    /\ UNCHANGED <<all_tasks, task, lq, li, issues, labels, tagExists, badKeys>>
    /\ UNCHANGED conf

\* add_story_to_assana
AddStory ==
    /\ pc = "add_story"
    /\ \/ /\ Ok("add_story", "", "ok")
          /\ Finish("copied")
       \/ /\ Raises("add_story", "")
          /\ Abort
    /\ UNCHANGED <<all_tasks, task, lq, li, issues, labels, tagExists, badKeys>>
    /\ UNCHANGED conf

NoOutcome == [i \in 1..MaxId |-> "none"]

\* the tool is invoked again: main() starts over with the same command line
Rerun ==
    /\ pc \in {"done", "aborted"}
    /\ run < MaxRuns
    /\ run' = run + 1
    /\ copiedBefore' = copiedBefore \cup {i \in 1..MaxId : outcome[i] = "copied"}
    /\ pc' = "get_tasks"
    /\ all_tasks' = <<>>
    /\ idx' = 0
    /\ task' = NoTask
    /\ lq' = <<>>
    /\ li' = 0
    /\ log' = <<>>
    /\ outcome' = NoOutcome
    /\ badKeys' = 0
    /\ UNCHANGED <<variant, options, project, issues, labels, tagExists, faults,
                   identical, writers, disk>>
    /\ UNCHANGED cvars

\* the listing of the project: its MaxId tasks in order, or no task
Listing == [i \in 1..MaxId |-> IntId(i)]

\* the cache files a run can start from
RunFiles == {FileMissing, FileObject([k \in StrKeys |-> OldRecord])}

\* the invocations that share one cache file
Procs == {"A", "B"}

\* no invocation is inside TaskCache.set
NoWriters ==
    [p \in Procs |-> [pc |-> "out", cache |-> EmptyMap, id |-> NoId,
                     name |-> <<>>, completed |-> FALSE]]

NoDisk == [len |-> 0, by |-> "none"]

OrchStart ==
    /\ writers = NoWriters
    /\ disk = NoDisk
    /\ run = 1
    /\ all_tasks = <<>>
    /\ idx = 0
    /\ task = NoTask
    /\ lq = <<>>
    /\ li = 0
    /\ log = <<>>
    /\ outcome = NoOutcome
    /\ copiedBefore = {}
    /\ issues = [i \in 1..MaxId |-> 0]
    /\ labels = {}
    /\ tagExists = FALSE
    /\ faults = 0
    /\ badKeys = 0
    /\ now = 0
    /\ last = NoLast

\* one invocation, with any command line; the cache is enabled and its file
\* holds either nothing or a record for every task of the project
Init ==
    /\ variant \in Variants
    /\ identical \in Identities(variant)
    /\ options \in Options
    /\ project \in {<<>>, Listing}
    /\ use_cache = TRUE
    /\ file \in RunFiles
    /\ pc = "get_tasks"
    /\ OrchStart

Next ==
    \/ GetTasks
    \/ GetTask
    \/ \E key \in Keys : AskUser(key)
    \/ GetLabel
    \/ CreateLabel
    \/ CreateIssue
    \/ ListStories
    \/ CreateComment
    \/ GetTags
    \/ CreateTag
    \/ AddTagTask
    \/ AddStory

Spec == Init /\ [][Next]_vars

\* repeated invocations with the default side effects
DefaultOptions(cc, ia) ==
    [copy_completed |-> cc, interactive |-> ia, dont_apply_label |-> FALSE,
     dont_apply_project_label |-> FALSE, dont_copy_stories |-> FALSE,
     dont_apply_tag |-> FALSE, dont_update_story |-> FALSE]

InitRerun ==
    /\ variant \in Variants
    /\ identical \in Identities(variant)
    /\ options \in {DefaultOptions(cc, ia) : cc \in BOOLEAN, ia \in BOOLEAN}
    /\ project = Listing
    /\ use_cache = TRUE
    /\ file \in RunFiles
    /\ pc = "get_tasks"
    /\ OrchStart

NextRerun ==
    \/ Next
    \/ Rerun

SpecRerun == InitRerun /\ [][NextRerun]_vars

\* the cache on its own: no run is in progress
CacheInit ==
    /\ use_cache \in BOOLEAN
    /\ file \in InitFiles
    /\ variant = "_asana_to_github"
    /\ identical = TRUE
    /\ options = DefaultOptions(FALSE, FALSE)
    /\ project = <<>>
    /\ pc = "idle"
    /\ OrchStart

SpecCache == CacheInit /\ [][CacheNext]_vars

(* ----------------------- concurrent invocations ----------------------- *)

\* the characters json.dump(cache, f, indent=2) writes: the braces, and for
\* every key of the dict about 100 characters of key, field names, time and
\* layout, the name, and true (4) or false (5)
RECURSIVE TextLen(_, _)
TextLen(cache, keys) ==
    IF keys = {} THEN 2
    ELSE LET k == CHOOSE x \in keys : TRUE
         IN  100 + Len(cache[k].name)
                 + (IF cache[k].completed_state THEN 4 ELSE 5)
                 + TextLen(cache, keys \ {k})

\* set, first half: cache = self.load(); cache[task['id']] = {...}
WriterLoad(p) ==
    /\ writers[p].pc = "load"
    /\ now < MaxTime
    /\ now' = now + 1
    /\ LET ld == Load(file, use_cache)
           rec == CacheRecord(writers[p].name, now + 1, writers[p].completed)
       IN  writers' = [writers EXCEPT
                          ![p].pc = IF ld.kind = "list" THEN "raised" ELSE "open",
                          ![p].cache = IF ld.kind = "list" THEN EmptyMap
                                       ELSE Assign(ld.d, writers[p].id, rec)]
    /\ UNCHANGED <<use_cache, file, last, disk>>
    /\ UNCHANGED <<variant, options, project, pc, run, all_tasks, idx, task, lq, li,
                   log, outcome, copiedBefore, issues, labels, tagExists, faults,
                   badKeys, identical>>

\* save: open(self.cache_path, 'w') empties the file
WriterOpen(p) ==
    /\ writers[p].pc = "open"
    /\ IF SaveSkips(use_cache)
       THEN /\ writers' = [writers EXCEPT ![p].pc = "done"]
            /\ UNCHANGED <<file, disk>>
       ELSE /\ writers' = [writers EXCEPT ![p].pc = "write"]
            /\ file' = FileCorrupt
            /\ disk' = [disk EXCEPT !.len = 0]
    /\ UNCHANGED <<use_cache, now, last>>
    /\ UNCHANGED <<variant, options, project, pc, run, all_tasks, idx, task, lq, li,
                   log, outcome, copiedBefore, issues, labels, tagExists, faults,
                   badKeys, identical>>

\* save: json.dump writes the text from the start of the file, and the file
\* is closed; characters that another invocation wrote beyond the end of
\* this text stay in the file, which is then not JSON
WriterWrite(p) ==
    /\ writers[p].pc = "write"
    /\ LET n == TextLen(writers[p].cache, DOMAIN writers[p].cache)
       IN  IF n >= disk.len
           THEN /\ \E m \in Dump(writers[p].cache) : file' = FileObject(m)
                /\ disk' = [len |-> n, by |-> p]
           ELSE /\ file' = FileCorrupt
                /\ disk' = [disk EXCEPT !.by = p]
    /\ writers' = [writers EXCEPT ![p].pc = "done"]
    /\ UNCHANGED <<use_cache, now, last>>
    /\ UNCHANGED <<variant, options, project, pc, run, all_tasks, idx, task, lq, li,
                   log, outcome, copiedBefore, issues, labels, tagExists, faults,
                   badKeys, identical>>

\* two invocations, each about to record one task in the same cache file
ConcInit ==
    /\ use_cache = TRUE
    /\ file \in {FileMissing} \cup {FileObject([k \in S |-> OldRecord]) : S \in SUBSET StrKeys}
    /\ writers \in [Procs -> [pc : {"load"}, cache : {EmptyMap}, id : TaskIds,
                              name : CacheNames, completed : BOOLEAN]]
    /\ disk = NoDisk
    /\ variant = "_asana_to_github"
    /\ identical = TRUE
    /\ options = DefaultOptions(FALSE, FALSE)
    /\ project = <<>>
    /\ pc = "idle"
    /\ run = 1
    /\ all_tasks = <<>>
    /\ idx = 0
    /\ task = NoTask
    /\ lq = <<>>
    /\ li = 0
    /\ log = <<>>
    /\ outcome = NoOutcome
    /\ copiedBefore = {}
    /\ issues = [i \in 1..MaxId |-> 0]
    /\ labels = {}
    /\ tagExists = FALSE
    /\ faults = 0
    /\ badKeys = 0
    /\ now = 0
    /\ last = NoLast

ConcNext ==
    \/ \E p \in Procs : WriterLoad(p)
    \/ \E p \in Procs : WriterOpen(p)
    \/ \E p \in Procs : WriterWrite(p)

SpecConc == ConcInit /\ [][ConcNext]_vars

(* ------------------------------- claims ------------------------------- *)

\* the task the log belongs to (0: none was fetched), whose detail is `task`
LogTask ==
    IF log # <<>> /\ log[1].call = "get_task" /\ log[1].res = "ok"
    THEN log[1].t ELSE 0

\* the persisted cache, as a load with the cache enabled reads it
Persisted == Load(file, TRUE).d

HasRecord(n) == Str(IntId(n)) \in DOMAIN Persisted

RecordOf(n) == Persisted[Str(IntId(n))]

\* the remote calls of copy_task_to_github
CopyCalls ==
    {"get_label", "create_label", "create_issue", "list_stories", "create_comment",
     "get_tags", "create_tag", "add_tag_task", "add_story"}

Called(call) == \E i \in 1..Len(log) : log[i].call = call

C2_CommitOnSuccess ==
    (use_cache /\ LogTask # 0 /\ outcome[LogTask] # "none")
        => IF outcome[LogTask] = "copied"
           THEN /\ HasRecord(LogTask)
                /\ RecordOf(LogTask).completed_state = task.completed
           ELSE HasRecord(LogTask) => RecordOf(LogTask) = OldRecord

\* C3: a task that failed the completion check or was declined at the prompt
\* gets no issue in the run, and the cache holds no record for it that was
\* written in the run (a record it holds was there before: clock reading 0)
SkippedNow ==
    /\ LogTask # 0
    /\ \/ task.completed /\ ~options.copy_completed
       \/ \E i \in 1..Len(log) : log[i].call = "ask_user" /\ log[i].res = "False"

C3_SkipsNotCached ==
    SkippedNow =>
        /\ issues[LogTask] = 0
        /\ ~Called("create_issue")
        /\ pc \in {"get_task", "done"}
        /\ outcome[LogTask] \in {"incomplete", "declined", "filtered"}
        /\ HasRecord(LogTask) => RecordOf(LogTask) = OldRecord

\* C3 witness: the run is over, one task was declined at the prompt and
\* another failed the completion check, and the cache has no record
C3_Witness ==
    /\ pc = "done"
    /\ file = FileMissing
    /\ \E a, b \in 1..MaxId : outcome[a] = "declined" /\ outcome[b] = "incomplete"
    /\ SkippedNow

\* C4: a task whose name ends in ':' does not pass the name test and no
\* issue is created for it
C4_NamingRule ==
    (LogTask # 0 /\ EndsWith(task.name, ":"))
        => /\ ~NameOk(variant, task)
           /\ ~Called("create_issue")
           /\ issues[LogTask] = 0

\* C5: for a task whose name does not end in ':', the run takes the task as
\* a candidate exactly when its id has no record in the Record Store
C5_CacheDecides ==
    (LogTask # 0 /\ ~EndsWith(task.name, ":"))
        => (NameOk(variant, task) <=> ~Includes(file, use_cache, IntId(LogTask)))

\* C6: with the cache enabled, after set(task) returns, includes(task) is
\* true and the re-loaded file maps str(id) to the record given to set
C6_RoundTrip ==
    /\ (use_cache /\ last.op = "includes" /\ last.after_set = last.id)
           => last.ret
    /\ (use_cache /\ last.op = "set" /\ ~last.raised)
           => /\ Load(file, use_cache).kind = "dict"
              /\ Str(last.id) \in DOMAIN Load(file, use_cache).d
              /\ Load(file, use_cache).d[Str(last.id)] = last.rec

\* C7: with the cache disabled, includes is false whatever the file holds,
\* set leaves the file as it was, and a load with the cache enabled again
\* does not see the record given to set
C7_DisabledCache ==
    ~use_cache =>
        /\ last.op = "includes" => ~last.ret /\ ~last.raised
        /\ last.op = "set" =>
              /\ ~last.raised
              /\ file = last.pre
              /\ \A k \in DOMAIN Persisted : Persisted[k] # last.rec

\* C7 witness: the cache is disabled, the file holds a record for an id, set
\* was called for that id and then includes
C7_Witness ==
    /\ ~use_cache
    /\ last.op = "includes"
    /\ last.after_set = last.id
    /\ file.st = "ok"
    /\ Str(last.id) \in DOMAIN file.map

\* C8: load does not raise, and it returns the empty mapping when the cache
\* is disabled or the file is missing, unreadable or not JSON
C8_LoadDegrades ==
    last.op = "load" =>
        /\ ~last.raised
        /\ (~use_cache \/ last.pre.st \in {"missing", "unreadable", "corrupt"})
              => last.loaded.kind = "dict" /\ DOMAIN last.loaded.d = {}

\* C8 witness: load was called with the cache enabled on a file that is not
\* JSON
C8_Witness ==
    /\ last.op = "load"
    /\ use_cache
    /\ last.pre.st = "corrupt"

\* C9: when a remote call of the copy step has failed, the run has aborted
\* (the failure reached the invoker), and no record was written for the task
C9_CopyFailureSurfaces ==
    \A i \in 1..Len(log) :
        (log[i].call \in CopyCalls /\ log[i].res = "error")
            => /\ pc = "aborted"
               /\ outcome[log[i].t] = "failed"
               /\ HasRecord(log[i].t) => RecordOf(log[i].t) = OldRecord

\* C10: an error of any remote call is the last call made for the task: no
\* further remote call follows it, and the run has aborted
C10_NoErrorMasked ==
    \A i \in 1..Len(log) :
        log[i].res = "error" => i = Len(log) /\ pc = "aborted"

\* C11: with the cache enabled, a set whose save could not open or could
\* not finish writing the file raises to its caller
C11_WriteFailurePropagates ==
    (use_cache /\ last.op = "set" /\ last.io \in {"open_fail", "write_fail"})
        => last.raised

\* C11 witness: the cache is enabled, the file held a record, and the write
\* of a set broke off
C11_Witness ==
    /\ use_cache
    /\ last.op = "set"
    /\ last.io = "write_fail"
    /\ last.pre.st = "ok"
    /\ DOMAIN last.pre.map # {}
    /\ last.raised

\* C12: when a set aborts, the persisted cache is the mapping it was before
\* the call: no record committed earlier is lost
C12_AbortKeepsLastCommit ==
    (use_cache /\ last.op = "set" /\ last.raised)
        => Persisted = Load(last.pre, TRUE).d

\* C13: the tasks are processed one at a time in the order of the listing:
\* every task before the current one is finished, no task after it has been
\* touched, and every call logged for the loop body is for the same task
C13_SequentialInOrder ==
    (pc # "get_tasks" /\ all_tasks # <<>>) =>
        /\ all_tasks = project
        /\ \A i \in 1..Len(all_tasks) :
              /\ i < idx => outcome[all_tasks[i].n] \notin {"none", "failed"}
              /\ i = idx => outcome[all_tasks[i].n] =
                                (IF pc = "aborted" THEN "failed" ELSE "none")
              /\ i > idx => /\ outcome[all_tasks[i].n] = "none"
                            /\ issues[all_tasks[i].n] = 0
        /\ \A j \in 1..Len(log) : log[j].t = log[1].t
        /\ LogTask # 0 =>
              LogTask = all_tasks[IF pc \in {"get_task", "done"} THEN idx - 1
                                  ELSE idx].n

\* C13 witness: the run has ended after copying the first task and then the
\* second
C13_Witness ==
    /\ pc = "done"
    /\ idx = Len(all_tasks) + 1
    /\ Len(all_tasks) >= 2
    /\ outcome[all_tasks[1].n] = "copied"
    /\ outcome[all_tasks[2].n] = "copied"
    /\ LogTask = all_tasks[2].n

\* C14: the detail of a task is fetched only for a task that passes the
\* filter: its name does not end in ':' and the cache holds no record for it
C14_FilterBeforeFetch ==
    \A i \in 1..Len(log) :
        (log[i].call = "get_task" /\ log[i].res = "ok")
            => /\ ~EndsWith(task.name, ":")
               /\ ~HasRecord(log[i].t)

\* C15: an issue is created only for a task that is not completed or under
\* copy_completed; a completed task without the flag reaches neither the
\* prompt nor the copy
C15_CompletionPolicy ==
    /\ \A i \in 1..Len(log) :
          log[i].call \in CopyCalls \cup {"ask_user"}
              => (~task.completed \/ options.copy_completed)
    /\ (LogTask # 0 /\ log[1].res = "ok" /\ task.completed
            /\ ~options.copy_completed)
          => /\ Len(log) = 1
             /\ pc \in {"get_task", "done"}
             /\ outcome[LogTask] \in {"incomplete", "filtered"}
             /\ issues[LogTask] = 0

\* C15 witness: an interactive run has passed over a completed task
C15_Witness ==
    /\ LogTask # 0
    /\ task.completed
    /\ ~options.copy_completed
    /\ options.interactive
    /\ outcome[LogTask] = "incomplete"

AskAt(i) == log[i].call = "ask_user"

\* the fetched task passes the name test and the completion test
Passes == NameOk(variant, task) /\ (~task.completed \/ options.copy_completed)

\* C16: the prompt is shown only in interactive mode, for a task that passed
\* the name and completion tests, in one go before any remote write for the
\* task; a declined task gets no remote write; copy calls follow a 'y' in
\* interactive mode and no prompt otherwise
C16_ConfirmationGating ==
    /\ \A i \in 1..Len(log) :
          AskAt(i) =>
              /\ options.interactive
              /\ Passes
              /\ \A j \in 1..(i - 1) :
                    \/ log[j].call = "get_task"
                    \/ AskAt(j) /\ log[j].res = "again"
    /\ \A i \in 1..Len(log) :
          (AskAt(i) /\ log[i].arg = "n" /\ log[i].res # "again") =>
              /\ i = Len(log)
              /\ log[i].res = "False"
              /\ issues[LogTask] = 0
              /\ outcome[LogTask] = "declined"
    /\ \A i \in 1..Len(log) :
          log[i].call \in CopyCalls =>
              IF options.interactive
              THEN AskAt(i - 1) \/ log[i - 1].call \in CopyCalls
              ELSE \A j \in 1..Len(log) : ~AskAt(j)
    /\ (LogTask # 0 /\ Passes /\ Len(log) = 1) =>
          IF options.interactive
          THEN pc = "ask"
          ELSE pc = CopyPc(LabelQueue(options, task))

\* C16 witness: the prompt was repeated once, then answered 'y', and the
\* issue has been created
C16_Witness ==
    /\ Len(log) >= 4
    /\ AskAt(2) /\ log[2].res = "again"
    /\ AskAt(3) /\ log[3].arg = "y" /\ log[3].res = "True"
    /\ Called("create_issue")
    /\ issues[LogTask] = 1

\* C17: for every answer typed at the prompt (an interrupt or the end of the
\* input is not an answer) the prompt returns True as soon as the answer is
\* 'y', False as soon as it is 'n', and otherwise asks again without failing
C17_PromptLoop ==
    \A i \in 1..Len(log) :
        (AskAt(i) /\ log[i].arg \notin InterruptKeys) =>
            log[i].res = (IF log[i].arg = "y" THEN "True"
                          ELSE IF log[i].arg = "n" THEN "False"
                          ELSE "again")

\* C18: when the listing succeeds and is empty, the run ends normally with
\* no further call and no write
C18_EmptyProjectExits ==
    (pc # "get_tasks" /\ all_tasks = <<>> /\ log # <<>> /\ log[1].res = "ok")
        => /\ pc = "done"
           /\ Len(log) = 1
           /\ \A n \in 1..MaxId : issues[n] = 0

\* C19: with the cache enabled, every key that had a record in the cache
\* file before a load, includes or set that returned normally has one after it
C19_RecordsNeverDeleted ==
    (use_cache /\ last.op # "none" /\ ~last.raised)
        => DOMAIN last.pre.map \subseteq DOMAIN file.map

\* C20: a set that returned normally over a readable or missing cache file
\* leaves under str(id) exactly the record it was given, and every other key
\* with the record it had
C20_UpsertOneKey ==
    (use_cache /\ last.op = "set" /\ ~last.raised
        /\ last.pre.st \in {"ok", "missing"})
        => /\ DOMAIN file.map = DOMAIN last.pre.map \cup {Str(last.id)}
           /\ file.map[Str(last.id)] = last.rec
           /\ \A k \in DOMAIN last.pre.map \ {Str(last.id)} :
                 file.map[k] = last.pre.map[k]

\* the mapping that the last set handed to save
Handed == Assign(Load(last.pre, use_cache).d, last.id, last.rec)

\* C21: the mapping handed to save never holds two keys with the same string
\* form, and includes answers alike for a numeric id and the equal string id
C21_CanonicalKeys ==
    /\ (use_cache /\ last.op = "set" /\ last.io # "none")
          => \A k1, k2 \in DOMAIN Handed :
                JsonKey(k1) = JsonKey(k2) => k1 = k2
    /\ \A n \in 1..MaxId :
          Includes(file, use_cache, IntId(n))
              = Includes(file, use_cache, [ty |-> "str", n |-> n])

\* C22: a run that ended normally has left a record for every task it
\* copied, and once every task was copied in earlier runs a further run
\* creates no issue
C22_ResumableByRerun ==
    /\ \A n \in 1..MaxId :
          (pc = "done" /\ outcome[n] = "copied") => HasRecord(n)
    /\ (run >= 2 /\ \A n \in 1..MaxId : n \in copiedBefore)
          => ~Called("create_issue")

\* C26: over all the runs, at most one issue is created for a task id
C26_OneIssuePerTask == \A n \in 1..MaxId : issues[n] <= 1

\* C23: label creation is called only for a name that does not exist in the
\* target tracker
C23_LabelGetOrCreate ==
    pc = "create_label" => lq[li] \notin labels

CalledWith(calls, args) ==
    \E i \in 1..Len(log) : log[i].call \in calls /\ log[i].arg \in args

ProjectNames == {task.projects[i] : i \in 1..Len(task.projects)}

\* C24: for the task being copied, a set flag means none of its remote
\* calls is made, the issue is created at most once, and a copy that has
\* returned has created the issue once and made the calls of every unset flag
C24_FlagsGate ==
    LogTask # 0 =>
        /\ options.dont_apply_label =>
              ~CalledWith({"get_label", "create_label"}, {"copied-from-asana"})
        /\ options.dont_apply_project_label =>
              ~CalledWith({"get_label", "create_label"}, ProjectNames)
        /\ options.dont_copy_stories =>
              ~Called("list_stories") /\ ~Called("create_comment")
        /\ options.dont_apply_tag =>
              ~Called("get_tags") /\ ~Called("create_tag") /\ ~Called("add_tag_task")
        /\ options.dont_update_story => ~Called("add_story")
        /\ Cardinality({i \in 1..Len(log) : log[i].call = "create_issue"}) <= 1
        /\ outcome[LogTask] = "copied" =>
              /\ Called("create_issue")
              /\ issues[LogTask] = 1
              /\ ~options.dont_apply_label =>
                    CalledWith({"get_label"}, {"copied-from-asana"})
              /\ ~options.dont_apply_project_label =>
                    \A p \in ProjectNames : CalledWith({"get_label"}, {p})
              /\ ~options.dont_copy_stories => Called("list_stories")
              /\ ~options.dont_apply_tag =>
                    Called("get_tags") /\ Called("add_tag_task")
              /\ ~options.dont_update_story => Called("add_story")

\* C24 witness: a copy has returned with the label and story flags set and
\* the tag and story write-back done
C24_Witness ==
    /\ LogTask # 0
    /\ outcome[LogTask] = "copied"
    /\ options.dont_apply_label /\ options.dont_apply_project_label
    /\ options.dont_copy_stories
    /\ ~options.dont_apply_tag /\ ~options.dont_update_story
    /\ Called("create_issue") /\ Called("add_tag_task") /\ Called("add_story")
    /\ ~Called("get_label") /\ ~Called("list_stories")

\* C25: when both invocations have left set, the cache file holds exactly
\* the mapping that the invocation which wrote last handed to save
C25_LastWriterWins ==
    ((\A p \in Procs : writers[p].pc = "done") /\ disk.by # "none")
        => /\ file.st = "ok"
           /\ file.map \in Dump(writers[disk.by].cache)

====
